---- MODULE Spec2Model ----
(***************************************************************************)
(* Model of the Streamlit financial-analyst chatbot (src/app.py).          *)
(*                                                                         *)
(* One user session is modelled at the granularity of one execution of     *)
(* main() per UI event (Spec).  Streamlit re-executes main() from the top  *)
(* on every widget interaction; st.session_state survives between runs.    *)
(* A second specification (SpecSessions) interleaves the statements of     *)
(* setup_gemini for two sessions that run as threads of one process and    *)
(* share os.environ.                                                       *)
(*                                                                         *)
(* Python None is modelled as the empty tuple and a present value x as     *)
(* the one-element tuple <<x>>.  Text is a sequence of tokens, so that a   *)
(* prefix such as "Error: " is something a formula can test.               *)
(***************************************************************************)
EXTENDS Integers, Sequences, FiniteSets, TLC

VARIABLES
    messages,             \* st.session_state.messages
    bot,                  \* st.session_state.bot (FinancialAnalystBot fields)
    documents_processed,  \* st.session_state.documents_processed
    financial_data,       \* st.session_state.financial_data
    api_key,              \* value of the "Google Gemini API Key" text input
    uploaded_file,        \* value of the file uploader
    environ,              \* os.environ["GOOGLE_API_KEY"] (process-wide)
    tmp_files,            \* number of temporary PDF files that exist on disk
    last,                 \* what the most recent execution of main() did
    n_ok,                 \* successful asks while the history is undisturbed
    undisturbed,          \* no clear, reprocess or failed ask happened yet
    s_pc,                 \* SpecSessions: position of each session's thread
    s_bot                 \* SpecSessions: each session's bot credentials

vars == <<messages, bot, documents_processed, financial_data, api_key,
          uploaded_file, environ, tmp_files, last, n_ok, undisturbed,
          s_pc, s_bot>>

sessionVars == <<messages, bot, documents_processed, financial_data, api_key,
                 uploaded_file, tmp_files, last, n_ok, undisturbed>>

threadVars == <<s_pc, s_bot>>

----------------------------------------------------------------------------
(* Bounds of the model *)

MaxTurns == 3
MaxExchanges == 2
MaxTmpFiles == 1

----------------------------------------------------------------------------
(* Values *)

None == <<>>
Some(x) == <<x>>
IsNone(o) == o = <<>>
Get(o) == o[1]

\* "" is the empty text input (falsy in Python); "keyA" a supplied credential.
ApiKeys == {"", "keyA"}

Files == {"a.pdf", "b.pdf"}

\* Number of pages with text segments generate_multimodal_pages yields for a
\* file: a.pdf has none, b.pdf has one.
Segments(f) == IF f = "a.pdf" THEN 0 ELSE 1

\* Questions typed into the chat input, and the sidebar's sample questions.
Questions == {"q1"}
sample_questions == {"Bagaimana kinerja keuangan perusahaan tahun ini?"}

Turn(role, content) == [role |-> role, content |-> content]

\* f"Error: {str(e)}"
ErrorText(e) == <<"Error: ", e>>

\* response["answer"] of a successful chain call
AnswerText(q) == <<"Answer", q>>

HasErrorMarker(text) == Len(text) > 0 /\ Head(text) = "Error: "

----------------------------------------------------------------------------
(* FinancialAnalystBot *)

BotInit ==
    [gemini_api_key |-> None, llm |-> None, embeddings |-> None,
     vectorstore |-> None, conversation_chain |-> None]

\* GoogleGenerativeAI(...) / GoogleGenerativeAIEmbeddings(...): no key is
\* passed, the client takes its credential from os.environ["GOOGLE_API_KEY"]
\* at construction.
GoogleGenerativeAI(env) == [google_api_key |-> env]

SetupOutcomes == {"ok", "llm_raises", "embeddings_raises"}

\* The statements of setup_gemini: line 112, lines 115-118, lines 120-122.
set_gemini_api_key(b, key) == [b EXCEPT !.gemini_api_key = Some(key)]
set_llm(b, env) == [b EXCEPT !.llm = Some(GoogleGenerativeAI(env))]
set_embeddings(b, env) == [b EXCEPT !.embeddings = Some(GoogleGenerativeAI(env))]

\* setup_gemini(api_key) run without interruption: the bot, the environment
\* and the returned value.
setup_gemini(b, key, out) ==
    LET b1 == set_gemini_api_key(b, key)
        env1 == key
        b2 == set_llm(b1, env1)
        b3 == set_embeddings(b2, env1)
    IN  CASE out = "llm_raises" ->
               [bot |-> b1, environ |-> env1, returned |-> FALSE]
          [] out = "embeddings_raises" ->
               [bot |-> b2, environ |-> env1, returned |-> FALSE]
          [] OTHER ->
               [bot |-> b3, environ |-> env1, returned |-> TRUE]

----------------------------------------------------------------------------
(* Extraction *)

\* Where a call of extract_pdf_content can fail.  "segments_raises" carries
\* the number of pages generate_multimodal_pages yielded before raising.
ExtractOutcomes(f) ==
    [kind : {"write_raises", "convert_raises", "export_raises", "ok"}, pages : {0}]
    \cup [kind : {"segments_raises"}, pages : 0 .. (Segments(f) - 1)]

\* export_to_markdown() of the converted file.
Markdown(f) == <<"markdown", f>>

\* extract_financial_data: the exception of generate_multimodal_pages is
\* caught inside, and what was collected before it is returned.
extract_financial_data(f, out) ==
    LET pages == IF out.kind = "segments_raises" THEN out.pages ELSE Segments(f)
    IN  [source |-> f, tables |-> pages, text_segments |-> pages]

\* Faulty variant of extract_pdf_content: a failed export_to_markdown is swallowed
\* and the function goes on with the markdown it has.
extract_pdf_content_swallows(f, out) ==
    CASE out.kind = "write_raises" ->
           [raised |-> TRUE, content |-> None, financial_data |-> None,
            tmp_left |-> 1]
      [] out.kind = "convert_raises" ->
           [raised |-> FALSE, content |-> None, financial_data |-> None,
            tmp_left |-> 0]
      [] OTHER ->
           [raised |-> FALSE, content |-> Some(Markdown(f)),
            financial_data |-> Some(extract_financial_data(f, out)),
            tmp_left |-> 0]

\* extract_pdf_content: raised = an exception leaves the function (the write
\* into the temporary file is outside the try); tmp_left = the temporary
\* file still exists when the call has ended (delete=False, and os.unlink
\* runs only in the finally of the try).
extract_pdf_content(f, out) ==
    CASE out.kind = "write_raises" ->
           [raised |-> TRUE, content |-> None, financial_data |-> None,
            tmp_left |-> 1]
      [] out.kind \in {"convert_raises", "export_raises"} ->
           [raised |-> FALSE, content |-> None, financial_data |-> None,
            tmp_left |-> 0]
      [] OTHER ->
           [raised |-> FALSE, content |-> Some(Markdown(f)),
            financial_data |-> Some(extract_financial_data(f, out)),
            tmp_left |-> 0]

\* The documents list main builds: the markdown document plus one document
\* per extracted text segment, all with metadata source = the file's name.
Documents(f, content, fd) ==
    [source |-> f, page_content |-> content,
     segments |-> IF IsNone(fd) THEN 0 ELSE Get(fd).text_segments]

----------------------------------------------------------------------------
(* Index and conversation chain *)

\* A FAISS index is identified by the documents it was built from and the
\* embedding client that embedded them.
CallOutcomes == {"ok", "raises"}

\* create_vectorstore(documents): self.vectorstore is assigned only when
\* FAISS.from_documents returned; embedding with self.embeddings = None
\* raises inside the try.
create_vectorstore(b, documents, out) ==
    IF out = "raises" \/ IsNone(b.embeddings)
    THEN [bot |-> b, returned |-> FALSE]
    ELSE [bot |-> [b EXCEPT !.vectorstore =
                      Some([source |-> documents.source,
                            segments |-> documents.segments,
                            embedding |-> Get(b.embeddings)])],
          returned |-> TRUE]

\* setup_conversation_chain(): a new ConversationBufferMemory and a chain
\* whose retriever is self.vectorstore.as_retriever(...).
setup_conversation_chain(b, out) ==
    IF out = "raises" \/ IsNone(b.vectorstore) \/ IsNone(b.llm)
    THEN [bot |-> b, returned |-> FALSE]
    ELSE [bot |-> [b EXCEPT !.conversation_chain =
                      Some([llm |-> Get(b.llm),
                            retriever |-> Get(b.vectorstore),
                            memory |-> <<>>])],
          returned |-> TRUE]

\* get_response(question): the chain loads chat_history from its memory,
\* retrieves, calls the LLM and, only when the call returned, saves the
\* question and the answer into its memory.
get_response(b, question, out) ==
    IF IsNone(b.conversation_chain)
    THEN [bot |-> b, answer |-> ErrorText("TypeError"), sources |-> <<>>,
          chat_history |-> <<>>, raised |-> TRUE]
    ELSE LET chain == Get(b.conversation_chain)
         IN  IF out = "raises"
             THEN [bot |-> b, answer |-> ErrorText("LLMError"),
                   sources |-> <<>>, chat_history |-> chain.memory,
                   raised |-> TRUE]
             ELSE [bot |-> [b EXCEPT !.conversation_chain =
                              Some([chain EXCEPT !.memory =
                                  chain.memory \o
                                  <<Turn("human", <<question>>),
                                    Turn("ai", AnswerText(question))>>])],
                   answer |-> AnswerText(question),
                   sources |-> <<chain.retriever.source>>,
                   chat_history |-> chain.memory, raised |-> FALSE]

----------------------------------------------------------------------------
(* main(): one execution of the script per UI event *)

NotCalled == "not called"
Returned(r) == IF r THEN "True" ELSE "False"

\* Lines 282-290: the API-key field and the call of setup_gemini.  The value
\* setup_gemini returns only decides whether the success banner is shown.
sidebar_api_key(b, env, key, out) ==
    IF key = ""
    THEN [bot |-> b, environ |-> env, setup |-> NotCalled]
    ELSE LET r == setup_gemini(b, key, out)
         IN  [bot |-> r.bot, environ |-> r.environ, setup |-> Returned(r.returned)]

\* Faulty variant of process_document: documents_processed and financial_data are
\* set as soon as the index is built, before the chain is set up.
process_document_flags_early(b, dp, fd, f, eo, co, so) ==
    LET x == extract_pdf_content(f, eo)
        stay == [bot |-> b, documents_processed |-> dp, financial_data |-> fd,
                 rerun |-> FALSE, extract |-> eo.kind, created |-> NotCalled,
                 chained |-> NotCalled, tmp_left |-> x.tmp_left]
    IN  IF x.raised \/ IsNone(x.content) \/ x.content = Some(<<>>)
        THEN stay
        ELSE LET c == create_vectorstore(
                          b, Documents(f, Get(x.content), x.financial_data), co)
             IN  IF ~c.returned
                 THEN [stay EXCEPT !.bot = c.bot, !.created = "False"]
                 ELSE LET ch == setup_conversation_chain(c.bot, so)
                      IN  [stay EXCEPT !.bot = ch.bot, !.created = "True",
                                       !.chained = Returned(ch.returned),
                                       !.documents_processed = TRUE,
                                       !.financial_data = x.financial_data,
                                       !.rerun = ch.returned]

\* Lines 303-328: the body of the "Proses Dokumen" button.
process_document(b, dp, fd, f, eo, co, so) ==
    LET x == extract_pdf_content(f, eo)
        stay == [bot |-> b, documents_processed |-> dp, financial_data |-> fd,
                 rerun |-> FALSE, extract |-> eo.kind, created |-> NotCalled,
                 chained |-> NotCalled, tmp_left |-> x.tmp_left]
    IN  IF x.raised \/ IsNone(x.content) \/ x.content = Some(<<>>)
        THEN stay
        ELSE LET c == create_vectorstore(
                          b, Documents(f, Get(x.content), x.financial_data), co)
             IN  IF ~c.returned
                 THEN [stay EXCEPT !.bot = c.bot, !.created = "False"]
                 ELSE LET ch == setup_conversation_chain(c.bot, so)
                      IN  IF ~ch.returned
                          THEN [stay EXCEPT !.bot = ch.bot, !.created = "True",
                                            !.chained = "False"]
                          ELSE [stay EXCEPT !.bot = ch.bot, !.created = "True",
                                            !.chained = "True",
                                            !.documents_processed = TRUE,
                                            !.financial_data = x.financial_data,
                                            !.rerun = TRUE]

\* Lines 358-362: a sample-question button.
sample_question(msgs, dp, question) ==
    IF dp
    THEN [messages |-> Append(msgs, Turn("user", <<question>>)), rerun |-> TRUE]
    ELSE [messages |-> msgs, rerun |-> FALSE]

\* Faulty variant of chat_input: the assistant Turn is appended only when
\* get_response did not fail.
chat_input_skips_error_turn(msgs, b, question, out) ==
    LET m1 == Append(msgs, Turn("user", <<question>>))
        r == get_response(b, question, out)
    IN  [messages |-> IF r.raised THEN m1
                      ELSE Append(m1, Turn("assistant", r.answer)),
         bot |-> r.bot, answer |-> r.answer, sources |-> r.sources,
         chat_history |-> r.chat_history, raised |-> r.raised]

\* Lines 392-403: a submitted chat input.
chat_input(msgs, b, question, out) ==
    LET m1 == Append(msgs, Turn("user", <<question>>))
        r == get_response(b, question, out)
    IN  [messages |-> Append(m1, Turn("assistant", r.answer)), bot |-> r.bot,
         answer |-> r.answer, sources |-> r.sources,
         chat_history |-> r.chat_history, raised |-> r.raised]

\* Lines 429-431: the "Clear Chat" button.
clear_chat(msgs) == <<>>

\* What an execution of main() did, for the properties below.
LastRun(event, setup) ==
    [event |-> event, setup |-> setup, extract |-> NotCalled,
     created |-> NotCalled, chained |-> NotCalled, asked |-> NotCalled,
     question |-> "", chat_history |-> <<>>, answer |-> <<>>, sources |-> <<>>]

Init ==
    /\ messages = <<>>
    /\ bot = BotInit
    /\ documents_processed = FALSE
    /\ financial_data = None
    /\ api_key = ""
    /\ uploaded_file = None
    /\ environ = ""
    /\ tmp_files = 0
    /\ last = LastRun("start", NotCalled)
    /\ n_ok = 0
    /\ undisturbed = TRUE
    /\ s_pc = [s \in {1, 2} |-> "idle"]
    /\ s_bot = [s \in {1, 2} |-> BotInit]

\* The possible results of a piece of the script, over the outcomes of the
\* external calls it makes.
SidebarResults(b, env, key) ==
    {sidebar_api_key(b, env, key, out) : out \in SetupOutcomes}

ProcessResults(b, dp, fd, f) ==
    {process_document(b, dp, fd, f, eo, co, so) :
        eo \in ExtractOutcomes(f), co \in CallOutcomes, so \in CallOutcomes}

ChatResults(msgs, b, q) ==
    {chat_input(msgs, b, q, lo) : lo \in CallOutcomes}

\* st.rerun(): the script is executed again from the top with no button
\* pressed, which calls setup_gemini once more.
RerunResults(rerun, b, env, key) ==
    IF rerun THEN SidebarResults(b, env, key)
    ELSE {[bot |-> b, environ |-> env, setup |-> NotCalled]}

\* The user edits the API-key field: main() runs with no button pressed.
SetApiKey(k) ==
    /\ k # api_key
    /\ api_key' = k
    /\ \E t \in SidebarResults(bot, environ, k) :
         /\ bot' = t.bot
         /\ environ' = t.environ
         /\ last' = LastRun("rerun", t.setup)
    /\ UNCHANGED <<messages, documents_processed, financial_data, uploaded_file,
                   tmp_files, n_ok, undisturbed, threadVars>>

\* The user picks or removes a file: main() runs with no button pressed.
UploadFile(f) ==
    /\ f # uploaded_file
    /\ uploaded_file' = f
    /\ \E t \in SidebarResults(bot, environ, api_key) :
         /\ bot' = t.bot
         /\ environ' = t.environ
         /\ last' = LastRun("rerun", t.setup)
    /\ UNCHANGED <<messages, documents_processed, financial_data, api_key,
                   tmp_files, n_ok, undisturbed, threadVars>>

\* "Proses Dokumen" is pressed (the button exists when a file is uploaded and
\* the key field is not empty); after a success st.rerun() runs main() again.
ProcessDocument ==
    /\ ~IsNone(uploaded_file)
    /\ api_key # ""
    /\ \E t \in SidebarResults(bot, environ, api_key) :
       \E r \in ProcessResults(t.bot, documents_processed, financial_data,
                               Get(uploaded_file)) :
       \E t2 \in RerunResults(r.rerun, r.bot, t.environ, api_key) :
         /\ tmp_files + r.tmp_left <= MaxTmpFiles
         /\ tmp_files' = tmp_files + r.tmp_left
         /\ bot' = t2.bot
         /\ environ' = t2.environ
         /\ documents_processed' = r.documents_processed
         /\ financial_data' = r.financial_data
         /\ last' = [LastRun("process", t.setup) EXCEPT
                        !.extract = r.extract, !.created = r.created,
                        !.chained = r.chained]
         /\ undisturbed' = (undisturbed /\ ~documents_processed)
         /\ n_ok' = IF undisturbed' THEN n_ok ELSE 0
    /\ UNCHANGED <<messages, api_key, uploaded_file, threadVars>>

\* A sample-question button is pressed.
SampleQuestion(q) ==
    /\ documents_processed => Len(messages) < MaxTurns
    /\ \E t \in SidebarResults(bot, environ, api_key) :
       LET r == sample_question(messages, documents_processed, q)
       IN  \E t2 \in RerunResults(r.rerun, t.bot, t.environ, api_key) :
             /\ messages' = r.messages
             /\ bot' = t2.bot
             /\ environ' = t2.environ
             /\ last' = [LastRun("sample", t.setup) EXCEPT !.question = q]
    /\ UNCHANGED <<documents_processed, financial_data, api_key, uploaded_file,
                   tmp_files, n_ok, undisturbed, threadVars>>

\* A question is submitted in the chat input (shown when documents_processed).
Ask(q) ==
    /\ documents_processed
    /\ Len(messages) + 2 <= MaxTurns
    /\ \E t \in SidebarResults(bot, environ, api_key) :
       \E r \in ChatResults(messages, t.bot, q) :
       \E t2 \in RerunResults(TRUE, r.bot, t.environ, api_key) :
         /\ ~r.raised =>
                Len(Get(r.bot.conversation_chain).memory) <= 2 * MaxExchanges
         /\ messages' = r.messages
         /\ bot' = t2.bot
         /\ environ' = t2.environ
         /\ last' = [LastRun("ask", t.setup) EXCEPT
                        !.asked = IF r.raised THEN "raises" ELSE "ok",
                        !.question = q, !.chat_history = r.chat_history,
                        !.answer = r.answer, !.sources = r.sources]
         /\ undisturbed' = (undisturbed /\ ~r.raised)
         /\ n_ok' = IF undisturbed' THEN n_ok + 1 ELSE 0
    /\ UNCHANGED <<documents_processed, financial_data, api_key, uploaded_file,
                   tmp_files, threadVars>>

\* "Clear Chat" is pressed (the button exists when documents_processed and
\* financial_data is truthy: a dict with its two keys always is).
ClearChat ==
    /\ documents_processed
    /\ ~IsNone(financial_data)
    /\ \E t \in SidebarResults(bot, environ, api_key) :
       \E t2 \in RerunResults(TRUE, t.bot, t.environ, api_key) :
         /\ messages' = clear_chat(messages)
         /\ bot' = t2.bot
         /\ environ' = t2.environ
         /\ last' = LastRun("clear", t.setup)
    /\ undisturbed' = FALSE
    /\ n_ok' = 0
    /\ UNCHANGED <<documents_processed, financial_data, api_key, uploaded_file,
                   tmp_files, threadVars>>

Next ==
    \/ \E k \in ApiKeys : SetApiKey(k)
    \/ \E f \in {None} \cup {Some(g) : g \in Files} : UploadFile(f)
    \/ ProcessDocument
    \/ \E q \in sample_questions : SampleQuestion(q)
    \/ \E q \in Questions : Ask(q)
    \/ ClearChat

Spec == Init /\ [][Next]_vars

----------------------------------------------------------------------------
(* Two sessions in one process: the statements of setup_gemini interleaved *)

Sessions == {1, 2}

\* The key each session's user typed into the API-key field.
KeyOf(s) == IF s = 1 THEN "keyA" ELSE "keyB"

\* A script run of session s reaches line 289 with a non-empty key.
EnterSetup(s) ==
    /\ s_pc[s] = "idle"
    /\ s_pc' = [s_pc EXCEPT ![s] = "line112"]
    /\ UNCHANGED <<s_bot, environ, sessionVars>>

\* Lines 112-113.
AssignKey(s) ==
    /\ s_pc[s] = "line112"
    /\ s_bot' = [s_bot EXCEPT ![s] = set_gemini_api_key(@, KeyOf(s))]
    /\ environ' = KeyOf(s)
    /\ s_pc' = [s_pc EXCEPT ![s] = "line115"]
    /\ UNCHANGED sessionVars

\* Lines 115-118: the client is built from the environment as it is now.
ConstructLLM(s) ==
    /\ s_pc[s] = "line115"
    /\ \/ /\ s_bot' = [s_bot EXCEPT ![s] = set_llm(@, environ)]
          /\ s_pc' = [s_pc EXCEPT ![s] = "line120"]
       \/ /\ s_pc' = [s_pc EXCEPT ![s] = "idle"]
          /\ UNCHANGED s_bot
    /\ UNCHANGED <<environ, sessionVars>>

\* Lines 120-124.
ConstructEmbeddings(s) ==
    /\ s_pc[s] = "line120"
    /\ \/ s_bot' = [s_bot EXCEPT ![s] = set_embeddings(@, environ)]
       \/ UNCHANGED s_bot
    /\ s_pc' = [s_pc EXCEPT ![s] = "idle"]
    /\ UNCHANGED <<environ, sessionVars>>

NextSessions ==
    \E s \in Sessions :
        \/ EnterSetup(s)
        \/ AssignKey(s)
        \/ ConstructLLM(s)
        \/ ConstructEmbeddings(s)

SpecSessions == Init /\ [][NextSessions]_vars

----------------------------------------------------------------------------
(* Properties *)

Chain == Get(bot.conversation_chain)
AskFailed == last.event = "ask" /\ last.asked = "raises"
ExtractionFailures == {"convert_raises", "export_raises", "segments_raises"}
ConversionFailures == {"convert_raises", "export_raises"}

C2_ClearResetsHistory ==
    last.event = "clear" =>
        /\ messages = <<>>
        /\ documents_processed
        /\ ~IsNone(bot.vectorstore)
        /\ \A q \in Questions, lo \in CallOutcomes :
               get_response(bot, q, lo).chat_history = <<>>

\* C3: after a successful run of "Proses Dokumen" the session's turn list
\* and the chain's buffer memory are both empty.
C3_ReprocessDiscardsMemory ==
    (last.event = "process" /\ last.chained = "True") =>
        /\ messages = <<>>
        /\ Chain.memory = <<>>

\* C4: while no clear, reprocess or failed ask has happened, after N
\* successful asks the turn list holds exactly 2N Turns, alternating user,
\* assistant, user, assistant, ...
C4_AlternatingTurns ==
    undisturbed =>
        /\ Len(messages) = 2 * n_ok
        /\ \A i \in 1 .. Len(messages) :
               messages[i].role = IF i % 2 = 1 THEN "user" ELSE "assistant"

\* C5: extraction/indexing and get_response run only in a script execution
\* whose API-key field is not empty and whose setup_gemini returned True.
C5_ConfigurationGate ==
    (last.extract # NotCalled \/ last.asked # NotCalled) =>
        (api_key # "" /\ last.setup = "True")

\* C6: the LLM and embedding clients of a session are always built with
\* that session's own API key.
C6_OwnCredential ==
    \A s \in Sessions :
        /\ ~IsNone(s_bot[s].llm) =>
               Get(s_bot[s].llm).google_api_key = KeyOf(s)
        /\ ~IsNone(s_bot[s].embeddings) =>
               Get(s_bot[s].embeddings).google_api_key = KeyOf(s)

\* C7: the chain's retriever is the bot's current vector index, and once
\* documents are processed that index and the financial_data summary come
\* from the same extraction.
C7_IndexConsistent ==
    /\ ~IsNone(bot.conversation_chain) =>
           Some(Chain.retriever) = bot.vectorstore
    /\ documents_processed =>
           /\ Get(bot.vectorstore).source = Get(financial_data).source
           /\ Get(bot.vectorstore).segments = Get(financial_data).text_segments

C9_TempFileRemoved == tmp_files = 0

\* C10: documents_processed implies that the vector index and the
\* conversation chain are set; get_response is only called in such a state;
\* documents_processed never goes back from True to False.
C10_ReadyInvariant ==
    /\ [](documents_processed =>
            ~IsNone(bot.vectorstore) /\ ~IsNone(bot.conversation_chain))
    /\ [][ /\ documents_processed => documents_processed'
           /\ last'.asked # NotCalled =>
                /\ documents_processed
                /\ ~IsNone(bot.vectorstore)
                /\ ~IsNone(bot.conversation_chain)
         ]_vars

\* C10: a successful ask in the READY state.
C10_Witness ==
    /\ documents_processed
    /\ last.event = "ask"
    /\ last.asked = "ok"

====
